---------------------------- MODULE Spec2Model ----------------------------
(***************************************************************************)
(* GCash Transaction Log Book: the SQLite data layer (DatabaseManager)     *)
(* and the form handlers of GCashTrackerApp that call it.                  *)
(*                                                                         *)
(* Text values are sequences of one-character strings, so that strip(),    *)
(* len(), the gcash regular expression and float() are computed on the     *)
(* characters.  Amounts are integers counted in thousandths of a peso      *)
(* (mills): 1000 is Php 1.00.                                              *)
(***************************************************************************)
EXTENDS Integers, Sequences, FiniteSets, TLC

VARIABLES
    CUSTOMER,                 \* rows of table CUSTOMER
    TRANSACTION,              \* rows of table "TRANSACTION"
    seqCustomer,              \* sqlite_sequence entry of CUSTOMER (AUTOINCREMENT)
    seqTransaction,           \* sqlite_sequence entry of "TRANSACTION"
    now,                      \* the store's clock (CURRENT_TIMESTAMP)
    call,                     \* the data-layer call made last, with its result
    addOrder,                 \* transaction ids in the order their rows were inserted
    form,                     \* the entry widgets and the type combobox
    selected_transaction_id,  \* GCashTrackerApp.selected_transaction_id (0 is None)
    tree,                     \* rows of the Treeview, top first
    selection,                \* transaction id of the selected Treeview row (0: none)
    labels,                   \* the three summary labels
    handler,                  \* the GUI handler that ran last and what it did
    pc,                       \* where the program is: constructing the manager, ready
    conn,                     \* DatabaseManager.conn ("None" or "Connection")
    cursor,                   \* DatabaseManager.cursor ("None" or "Cursor")
    tables,                   \* the store has the two tables of create_tables
    failure,                  \* the store failed during the last operation
    fault                     \* the exception that escaped an operation ("" if none)

vars == <<CUSTOMER, TRANSACTION, seqCustomer, seqTransaction, now, call,
          addOrder, form, selected_transaction_id, tree, selection, labels,
          handler, pc, conn, cursor, tables, failure, fault>>

dbVars  == <<CUSTOMER, TRANSACTION, seqCustomer, seqTransaction>>
guiVars == <<form, selected_transaction_id, tree, selection, labels, handler>>
storeVars == <<pc, conn, cursor, tables, failure, fault>>

---------------------------------------------------------------------------
(* Bounds *)

MaxTransactions == 3      \* rows ever inserted into "TRANSACTION"
MaxClock        == 1      \* ticks of the store's clock
MaxAdds         == 2      \* rows ever inserted through the form

---------------------------------------------------------------------------
(* Python values handed to the data layer, and their SQLite binding *)

None     == [kind |-> "none",  v |-> 0]
NaN      == [kind |-> "nan",   v |-> 0]
NULL     == [kind |-> "null",  v |-> 0]
PyInt(n)   == [kind |-> "int",   v |-> n]
PyFloat(m) == [kind |-> "float", v |-> m]

\* sqlite3 binds None as NULL, and SQLite stores a NaN double as NULL
Bind(x) == IF x.kind \in {"none", "nan"} THEN NULL ELSE x

---------------------------------------------------------------------------
(* Texts used as inputs *)

G1 == <<"0","9","1","7","1","2","3","4","5","6","7">>
G2 == <<"0","9","1","8","7","6","5","4","3","2","1">>
Ana  == <<"A","n","a">>
Bea  == <<"B","e","a">>
Cruz == <<"C","r","u","z">>
R1 == <<"R","1">>
R2 == <<"R","2">>

CASH_IN  == "Cash-in"
CASH_OUT == "Cash-out"

\* (gcash, first, last) handed to get_or_create_customer
CustomerArgs == {<<G1, Ana, Cruz>>, <<G1, Bea, Cruz>>, <<G2, Ana, Cruz>>}
RefArgs      == {R1, R2}
\* (amount, trans_type) handed to add_transaction and update_transaction
ValueArgs    == {<<PyFloat(1000), CASH_IN>>, <<PyFloat(2000), CASH_OUT>>,
                 <<PyFloat(0), CASH_IN>>, <<NaN, CASH_OUT>>,
                 <<PyFloat(1000), "Bogus">>}
CustIdArgs   == {None, PyInt(1), PyInt(2)}
TransIdArgs  == {None} \cup {PyInt(i) : i \in 1..MaxTransactions}

---------------------------------------------------------------------------
(* Schema constraints of create_tables *)

NotNull(x) == x.kind # "null"

\* CHECK (amount > 0)
CheckAmount(a) == a.v > 0

\* CHECK (transaction_type IN ('Cash-in', 'Cash-out'))
CheckType(ty) == ty \in {CASH_IN, CASH_OUT}

\* reference_number ... UNIQUE; self is the set of ids of the rows being written
UniqueReference(T, ref, self) ==
    \A t \in T : t.reference_number = ref => t.transaction_id \in self

\* the same column with PRAGMA foreign_keys left off: nothing is enforced
ForeignKey_Off(C, cid) == TRUE

\* FOREIGN KEY (customer_id) REFERENCES CUSTOMER(customer_id), PRAGMA foreign_keys = 1
ForeignKey(C, cid) == \E c \in C : c.customer_id = cid.v

\* gcash_number ... UNIQUE
UniqueGcash(C, gcash) == \A c \in C : c.gcash_number # gcash

\* INTEGER PRIMARY KEY AUTOINCREMENT: one more than the largest id ever used
NextRowId(seq) == seq + 1

---------------------------------------------------------------------------
(* The record of a data-layer call *)

NoCall == [op |-> "none", gcash |-> <<>>, first |-> <<>>, last |-> <<>>,
           customer_id |-> None, trans_id |-> None, ref |-> <<>>,
           amount |-> NaN, type |-> "", ok |-> FALSE, id |-> 0,
           msg |-> "", rows |-> <<>>]

MSG_EXISTS   == "Reference Number already exists."
MSG_DB_ERROR == "Database Error"

---------------------------------------------------------------------------
(* DatabaseManager: the statements each method executes *)

\* the lookup as it would be if it matched no row
SqlSelectCustomer_NoMatch(C, gcash) == {}

\* SELECT customer_id FROM CUSTOMER WHERE gcash_number = ?
SqlSelectCustomer(C, gcash) == {c \in C : c.gcash_number = gcash}

\* INSERT INTO CUSTOMER (gcash_number, first_name, last_name) VALUES (?, ?, ?)
SqlInsertCustomer(C, seq, gcash, first, last) ==
    IF UniqueGcash(C, gcash)
    THEN [err |-> "", seq |-> NextRowId(seq), lastrowid |-> NextRowId(seq),
          C |-> C \cup {[customer_id |-> NextRowId(seq), gcash_number |-> gcash,
                         first_name |-> first, last_name |-> last]}]
    ELSE [err |-> "IntegrityError", seq |-> seq, lastrowid |-> 0, C |-> C]

\* INSERT INTO "TRANSACTION" (customer_id, reference_number, amount,
\* transaction_type) VALUES (?, ?, ?, ?); transaction_date defaults to ts
SqlInsertTransaction(C, T, seq, cid, ref, amt, ty, ts) ==
    IF /\ NotNull(cid) /\ NotNull(amt)
       /\ CheckAmount(amt) /\ CheckType(ty)
       /\ UniqueReference(T, ref, {})
       /\ ForeignKey(C, cid)
    THEN [err |-> "", seq |-> NextRowId(seq), lastrowid |-> NextRowId(seq),
          T |-> T \cup {[transaction_id |-> NextRowId(seq), customer_id |-> cid.v,
                         reference_number |-> ref, amount |-> amt.v,
                         transaction_type |-> ty, transaction_date |-> ts]}]
    ELSE [err |-> "IntegrityError", seq |-> seq, lastrowid |-> 0, T |-> T]

\* SET reference_number = ?, amount = ?, transaction_type = ?
SetColumns(t, ref, amt, ty) ==
    [t EXCEPT !.reference_number = ref, !.amount = amt.v, !.transaction_type = ty]

\* the UPDATE as it would be without its WHERE clause
SqlUpdateTransaction_All(T, tid, ref, amt, ty) ==
    IF /\ NotNull(amt) /\ CheckAmount(amt) /\ CheckType(ty)
       /\ UniqueReference(T, ref, {t.transaction_id : t \in T})
    THEN [err |-> "", T |-> {SetColumns(t, ref, amt, ty) : t \in T}]
    ELSE [err |-> "IntegrityError", T |-> T]

\* UPDATE "TRANSACTION" SET ... WHERE transaction_id = ?
SqlUpdateTransaction(T, tid, ref, amt, ty) ==
    LET hit == {t \in T : NotNull(tid) /\ t.transaction_id = tid.v} IN
    IF hit = {}
    THEN [err |-> "", T |-> T]
    ELSE IF /\ NotNull(amt) /\ CheckAmount(amt) /\ CheckType(ty)
            /\ UniqueReference(T, ref, {t.transaction_id : t \in hit})
         THEN [err |-> "",
               T |-> (T \ hit) \cup {SetColumns(t, ref, amt, ty) : t \in hit}]
         ELSE [err |-> "IntegrityError", T |-> T]

\* the DELETE as it would be without its WHERE clause
SqlDeleteTransaction_All(T, tid) == {}

\* DELETE FROM "TRANSACTION" WHERE transaction_id = ?
SqlDeleteTransaction(T, tid) ==
    {t \in T : ~(NotNull(tid) /\ t.transaction_id = tid.v)}

\* the join as it would be ON t.transaction_id = c.customer_id
SqlJoin_WrongKey(C, T) ==
    {[transaction_id |-> t.transaction_id, gcash_number |-> c.gcash_number,
      first_name |-> c.first_name, last_name |-> c.last_name,
      amount |-> t.amount, transaction_type |-> t.transaction_type,
      reference_number |-> t.reference_number,
      transaction_date |-> t.transaction_date, customer_id |-> c.customer_id]
        : <<t, c>> \in {p \in T \X C : p[1].transaction_id = p[2].customer_id}}

\* SELECT ... FROM "TRANSACTION" t JOIN CUSTOMER c ON t.customer_id = c.customer_id
SqlJoin(C, T) ==
    {[transaction_id |-> t.transaction_id, gcash_number |-> c.gcash_number,
      first_name |-> c.first_name, last_name |-> c.last_name,
      amount |-> t.amount, transaction_type |-> t.transaction_type,
      reference_number |-> t.reference_number,
      transaction_date |-> t.transaction_date, customer_id |-> c.customer_id]
        : <<t, c>> \in {p \in T \X C : p[1].customer_id = p[2].customer_id}}

\* the row ORDER BY t.transaction_id ASC would put first
FirstDesc_Asc(S) == CHOOSE r \in S : \A q \in S : q.transaction_id >= r.transaction_id

\* the row ORDER BY t.transaction_id DESC puts first
FirstDesc(S) == CHOOSE r \in S : \A q \in S : q.transaction_id <= r.transaction_id

\* ORDER BY t.transaction_id DESC
RECURSIVE OrderByIdDesc(_)
OrderByIdDesc(S) ==
    IF S = {} THEN <<>>
    ELSE <<FirstDesc(S)>> \o OrderByIdDesc(S \ {FirstDesc(S)})

---------------------------------------------------------------------------
(* DatabaseManager: the CRUD methods.  db is the store; each method gives  *)
(* the store after the call, the value returned and the message shown.     *)

Store(C, T, sc, st) ==
    [CUSTOMER |-> C, TRANSACTION |-> T, seqCustomer |-> sc, seqTransaction |-> st]

get_or_create_customer(db, gcash, first, last) ==
    LET result == SqlSelectCustomer(db.CUSTOMER, gcash)
        ins    == SqlInsertCustomer(db.CUSTOMER, db.seqCustomer, gcash, first, last)
    IN  IF result # {}
        THEN [db |-> db, ret |-> PyInt((CHOOSE c \in result : TRUE).customer_id),
              msg |-> ""]
        ELSE IF ins.err = ""
        THEN [db |-> [db EXCEPT !.CUSTOMER = ins.C, !.seqCustomer = ins.seq],
              ret |-> PyInt(ins.lastrowid), msg |-> ""]
        ELSE [db |-> db, ret |-> None, msg |-> MSG_DB_ERROR]

add_transaction(db, customer_id, ref_num, amount, trans_type, ts) ==
    LET ins == SqlInsertTransaction(db.CUSTOMER, db.TRANSACTION, db.seqTransaction,
                                    Bind(customer_id), ref_num, Bind(amount),
                                    trans_type, ts)
    IN  IF ins.err = ""
        THEN [db |-> [db EXCEPT !.TRANSACTION = ins.T, !.seqTransaction = ins.seq],
              ret |-> TRUE, msg |-> ""]
        ELSE IF ins.err = "IntegrityError"
        THEN [db |-> db, ret |-> FALSE, msg |-> MSG_EXISTS]
        ELSE [db |-> db, ret |-> FALSE, msg |-> MSG_DB_ERROR]

fetch_all_transactions(db) == OrderByIdDesc(SqlJoin(db.CUSTOMER, db.TRANSACTION))

update_transaction(db, trans_id, ref_num, amount, trans_type) ==
    LET upd == SqlUpdateTransaction(db.TRANSACTION, Bind(trans_id), ref_num,
                                    Bind(amount), trans_type)
    IN  IF upd.err = ""
        THEN [db |-> [db EXCEPT !.TRANSACTION = upd.T], ret |-> TRUE, msg |-> ""]
        ELSE IF upd.err = "IntegrityError"
        THEN [db |-> db, ret |-> FALSE, msg |-> MSG_EXISTS]
        ELSE [db |-> db, ret |-> FALSE, msg |-> MSG_DB_ERROR]

delete_transaction(db, trans_id) ==
    [db  |-> [db EXCEPT !.TRANSACTION =
                  SqlDeleteTransaction(db.TRANSACTION, Bind(trans_id))],
     ret |-> TRUE, msg |-> ""]

---------------------------------------------------------------------------
(* Text helpers: str.strip, str.split, int and float conversions *)

DigitChars == <<"0", "1", "2", "3", "4", "5", "6", "7", "8", "9">>

IsDigit(c) == \E i \in 1..10 : DigitChars[i] = c

DigitValue(c) == (CHOOSE i \in 1..10 : DigitChars[i] = c) - 1

AllDigits(s) == \A i \in 1..Len(s) : IsDigit(s[i])

IsSpace(c) == c = " "

RECURSIVE LStrip(_)
LStrip(s) == IF s # <<>> /\ IsSpace(Head(s)) THEN LStrip(Tail(s)) ELSE s

RECURSIVE RStrip(_)
RStrip(s) ==
    IF s # <<>> /\ IsSpace(s[Len(s)]) THEN RStrip(SubSeq(s, 1, Len(s) - 1)) ELSE s

\* str.strip()
Strip(s) == RStrip(LStrip(s))

\* the words of str.split(), in order
RECURSIVE Split(_)
Split(s) ==
    LET t   == LStrip(s)
        end == IF \E i \in 1..Len(t) : IsSpace(t[i])
               THEN (CHOOSE i \in 1..Len(t) :
                        IsSpace(t[i]) /\ \A j \in 1..(i - 1) : ~IsSpace(t[j])) - 1
               ELSE Len(t)
    IN  IF t = <<>> THEN <<>>
        ELSE <<SubSeq(t, 1, end)>> \o Split(SubSeq(t, end + 1, Len(t)))

\* the value of a run of decimal digits
RECURSIVE DigitsValue(_)
DigitsValue(s) ==
    IF s = <<>> THEN 0
    ELSE 10 * DigitsValue(SubSeq(s, 1, Len(s) - 1)) + DigitValue(s[Len(s)])

\* str(n) for n >= 0
RECURSIVE IntToText(_)
IntToText(n) ==
    IF n < 10 THEN <<DigitChars[n + 1]>>
    ELSE IntToText(n \div 10) \o <<DigitChars[(n % 10) + 1]>>

Lower(c) == IF c = "N" THEN "n" ELSE IF c = "A" THEN "a" ELSE c

ValueError == [kind |-> "ValueError", v |-> 0]

\* the digits of a fraction, read as mills (inputs have at most 3 of them)
FractionMills(s) == DigitsValue(s \o SubSeq(<<"0", "0", "0">>, 1, 3 - Len(s)))

\* float(text) of an unsigned decimal text, in mills
UnsignedFloat(t) ==
    LET dot  == IF \E i \in 1..Len(t) : t[i] = "."
                THEN CHOOSE i \in 1..Len(t) : t[i] = "." /\ \A j \in 1..(i - 1) : t[j] # "."
                ELSE Len(t) + 1
        ip   == SubSeq(t, 1, dot - 1)
        fp   == SubSeq(t, dot + 1, Len(t))
    IN  IF /\ AllDigits(ip) /\ AllDigits(fp) /\ Len(ip) + Len(fp) > 0 /\ Len(fp) <= 3
        THEN PyFloat(1000 * DigitsValue(ip) + FractionMills(fp))
        ELSE ValueError

\* float(text): surrounding blanks, a sign, "nan" in any case, or a decimal
\* number.  Exponents, underscores and "inf" are not among the inputs.
FloatOf(text) ==
    LET t    == Strip(text)
        neg  == t # <<>> /\ Head(t) = "-"
        body == IF t # <<>> /\ Head(t) \in {"-", "+"} THEN Tail(t) ELSE t
        u    == UnsignedFloat(body)
    IN  IF [i \in 1..Len(body) |-> Lower(body[i])] = <<"n", "a", "n">> THEN NaN
        ELSE IF u = ValueError THEN ValueError
        ELSE IF neg THEN PyFloat(0 - u.v) ELSE u

\* format(x, ".2f") as a number of centavos: the nearest one (no input of
\* the model lies half-way between two)
RoundCents(m) == IF m >= 0 THEN (m + 5) \div 10 ELSE 0 - ((5 - m) \div 10)

\* the integer part with "," between groups of three digits
RECURSIVE Grouped(_)
Grouped(n) ==
    IF n < 1000 THEN IntToText(n)
    ELSE Grouped(n \div 1000) \o <<",">> \o
         SubSeq(IntToText(1000 + (n % 1000)), 2, 4)

\* f"Php {amount:,.2f}" for amount >= 0
FormatAmount(m) ==
    <<"P", "h", "p", " ">> \o Grouped(RoundCents(m) \div 100) \o <<".">> \o
    SubSeq(IntToText(100 + (RoundCents(m) % 100)), 2, 3)

\* str.replace(old, "") for the two replacements of load_selected
RECURSIVE RemoveAll(_, _)
RemoveAll(s, old) ==
    IF Len(s) < Len(old) THEN s
    ELSE IF SubSeq(s, 1, Len(old)) = old
    THEN RemoveAll(SubSeq(s, Len(old) + 1, Len(s)), old)
    ELSE <<Head(s)>> \o RemoveAll(Tail(s), old)

\* str(int(s)) of a run of digits: the digits without leading zeros
RECURSIVE NoLeadingZeros(_)
NoLeadingZeros(s) ==
    IF Len(s) > 1 /\ Head(s) = "0" THEN NoLeadingZeros(Tail(s)) ELSE s

\* what tkinter hands back for a Treeview cell: a cell that reads as an
\* integer comes back as an int, and str() of it has no leading zeros
TkCellText(s) == IF s # <<>> /\ AllDigits(s) THEN NoLeadingZeros(s) ELSE s

---------------------------------------------------------------------------
(* GCashTrackerApp: validation, display and form logic *)

RefMaxLen == 13

\* re.match(r'^09\d{9}$', gcash)
GcashPattern(g) ==
    /\ Len(g) = 11
    /\ g[1] = "0" /\ g[2] = "9"
    /\ \A i \in 3..11 : IsDigit(g[i])

\* the amount check of validate_inputs: float() raises, or amount <= 0 raises
AmountAccepted(a) == a # ValueError /\ ~(a.kind = "float" /\ a.v <= 0)

\* validate_inputs: ok is FALSE where the method returns None
validate_inputs(f) ==
    LET gcash  == Strip(f.gcash)
        first  == Strip(f.first)
        last   == Strip(f.last)
        ref    == Strip(f.ref)
        amount == FloatOf(f.amount)
    IN  [ok |-> /\ gcash # <<>> /\ first # <<>> /\ last # <<>> /\ ref # <<>>
                /\ f.amount # <<>>
                /\ GcashPattern(gcash)
                /\ ~(Len(ref) > RefMaxLen)
                /\ AmountAccepted(amount),
         gcash |-> gcash, first |-> first, last |-> last, ref |-> ref,
         amount |-> amount, type |-> f.type]

\* the totals loop of refresh_data over rows i..Len(rows)
RECURSIVE Totals(_, _, _)
Totals(rows, i, acc) ==
    IF i > Len(rows) THEN acc
    ELSE Totals(rows, i + 1,
                IF rows[i].transaction_type = CASH_IN
                THEN [acc EXCEPT !.total_in = @ + rows[i].amount]
                ELSE [acc EXCEPT !.total_out = @ + rows[i].amount])

\* the net as it would be with the operands swapped: total_in - total_out
NetOf_Swapped(t) == t.total_in - t.total_out

\* net = total_out - total_in
NetOf(t) == t.total_out - t.total_in

\* the Treeview row inserted for a fetched row
TreeRow(row) ==
    [id |-> row.transaction_id, gcash |-> row.gcash_number,
     name |-> row.first_name \o <<" ">> \o row.last_name,
     amount |-> FormatAmount(row.amount), type |-> row.transaction_type,
     ref |-> row.reference_number, date |-> row.transaction_date]

\* refresh_data: the Treeview rows and the summary labels (in centavos)
refresh_data(db) ==
    LET rows == fetch_all_transactions(db)
        t    == Totals(rows, 1, [total_in |-> 0, total_out |-> 0])
    IN  [tree   |-> [i \in 1..Len(rows) |-> TreeRow(rows[i])],
         labels |-> [cash_in  |-> RoundCents(t.total_in),
                     cash_out |-> RoundCents(t.total_out),
                     net      |-> RoundCents(NetOf(t))]]

\* load_selected: the form as populated from a Treeview row
LoadedForm(values) ==
    LET g     == TkCellText(values.gcash)
        words == Split(values.name)
    IN  [gcash  |-> IF Len(g) = 10 /\ Head(g) # "0" THEN <<"0">> \o g ELSE g,
         first  |-> words[1],
         last   |-> words[Len(words)],
         ref    |-> TkCellText(values.ref),
         amount |-> RemoveAll(RemoveAll(values.amount, <<"P", "h", "p", " ">>),
                              <<",">>),
         type   |-> values.type]

---------------------------------------------------------------------------
(* State *)

DB == Store(CUSTOMER, TRANSACTION, seqCustomer, seqTransaction)

SetDB(db) ==
    /\ CUSTOMER' = db.CUSTOMER
    /\ TRANSACTION' = db.TRANSACTION
    /\ seqCustomer' = db.seqCustomer
    /\ seqTransaction' = db.seqTransaction

EmptyForm == [gcash |-> <<>>, first |-> <<>>, last |-> <<>>, ref |-> <<>>,
              amount |-> <<>>, type |-> CASH_IN]

NoLabels == [cash_in |-> 0, cash_out |-> 0, net |-> 0]

\* what a handler did: the form it read, whether validate_inputs accepted
\* it, how many data-layer calls it made, whether it ended in refresh_data
Handled(name, input, valid, calls, refreshed) ==
    [name |-> name, input |-> input, valid |-> valid, calls |-> calls,
     refreshed |-> refreshed]

\* ids in order of insertion, with the newly inserted one appended
Inserted(order, db0, db1) ==
    IF db1.seqTransaction # db0.seqTransaction
    THEN Append(order, db1.seqTransaction) ELSE order

\* no add, update or delete handler has just run
NoHandler == Handled("none", EmptyForm, FALSE, 0, FALSE)

Init ==
    /\ CUSTOMER = {}
    /\ TRANSACTION = {}
    /\ seqCustomer = 0
    /\ seqTransaction = 0
    /\ now = 0
    /\ call = NoCall
    /\ addOrder = <<>>
    /\ form = EmptyForm
    /\ selected_transaction_id = 0
    /\ tree = <<>>
    /\ selection = 0
    /\ labels = NoLabels
    /\ handler = Handled("__init__", EmptyForm, FALSE, 1, TRUE)
    /\ pc = "ready"
    /\ conn = "Connection"
    /\ cursor = "Cursor"
    /\ tables = TRUE
    /\ failure = FALSE
    /\ fault = ""

---------------------------------------------------------------------------
(* Calls of the data layer with arbitrary arguments.  The program is       *)
(* single-threaded: a call is made when the previous one has returned.     *)

Idle == call.op = "none"

CallGetOrCreateCustomer(gcash, first, last) ==
    LET r == get_or_create_customer(DB, gcash, first, last) IN
    /\ Idle
    /\ SetDB(r.db)
    /\ call' = [NoCall EXCEPT !.op = "get_or_create_customer", !.gcash = gcash,
                   !.first = first, !.last = last, !.ok = (r.ret # None),
                   !.id = r.ret.v, !.msg = r.msg]
    /\ UNCHANGED <<now, addOrder, guiVars, storeVars>>

CallAddTransaction(customer_id, ref_num, amount, trans_type) ==
    LET r == add_transaction(DB, customer_id, ref_num, amount, trans_type, now) IN
    /\ Idle
    /\ seqTransaction < MaxTransactions
    /\ SetDB(r.db)
    /\ addOrder' = Inserted(addOrder, DB, r.db)
    /\ call' = [NoCall EXCEPT !.op = "add_transaction", !.customer_id = customer_id,
                   !.ref = ref_num, !.amount = amount, !.type = trans_type,
                   !.ok = r.ret, !.msg = r.msg]
    /\ UNCHANGED <<now, guiVars, storeVars>>

CallUpdateTransaction(trans_id, ref_num, amount, trans_type) ==
    LET r == update_transaction(DB, trans_id, ref_num, amount, trans_type) IN
    /\ Idle
    /\ SetDB(r.db)
    /\ call' = [NoCall EXCEPT !.op = "update_transaction", !.trans_id = trans_id,
                   !.ref = ref_num, !.amount = amount, !.type = trans_type,
                   !.ok = r.ret, !.msg = r.msg]
    /\ UNCHANGED <<now, addOrder, guiVars, storeVars>>

CallDeleteTransaction(trans_id) ==
    LET r == delete_transaction(DB, trans_id) IN
    /\ Idle
    /\ SetDB(r.db)
    /\ call' = [NoCall EXCEPT !.op = "delete_transaction", !.trans_id = trans_id,
                   !.ok = r.ret, !.msg = r.msg]
    /\ UNCHANGED <<now, addOrder, guiVars, storeVars>>

CallFetchAllTransactions ==
    /\ Idle
    /\ call' = [NoCall EXCEPT !.op = "fetch_all_transactions", !.ok = TRUE,
                   !.rows = fetch_all_transactions(DB)]
    /\ UNCHANGED <<dbVars, now, addOrder, guiVars, storeVars>>

\* the caller has taken the result of the call
Return ==
    /\ ~Idle
    /\ call' = NoCall
    /\ UNCHANGED <<dbVars, now, addOrder, guiVars, storeVars>>

\* CURRENT_TIMESTAMP moves on between calls
Tick ==
    /\ Idle
    /\ now < MaxClock
    /\ now' = now + 1
    /\ UNCHANGED <<dbVars, call, addOrder, guiVars, storeVars>>

Next ==
    \/ \E c \in CustomerArgs : CallGetOrCreateCustomer(c[1], c[2], c[3])
    \/ \E c \in CustIdArgs, r \in RefArgs, v \in ValueArgs :
           CallAddTransaction(c, r, v[1], v[2])
    \/ \E i \in TransIdArgs, r \in RefArgs, v \in ValueArgs :
           CallUpdateTransaction(i, r, v[1], v[2])
    \/ \E i \in TransIdArgs : CallDeleteTransaction(i)
    \/ CallFetchAllTransactions
    \/ Return
    \/ Tick

Spec == Init /\ [][Next]_vars

---------------------------------------------------------------------------
(* The GUI handlers.  The user fills the entries and clicks; what is typed *)
(* is an input of the click.  Entries are typed into when they are clear   *)
(* (Add) or as load_selected left them (Save Edits), which loses no form   *)
(* content: typing overwrites an entry whatever it held.  Rows added       *)
(* through the form are added at least a second apart: the clock has moved *)
(* on by the time a row is inserted.                                       *)

T100  == <<"1", "0", "0">>
T40   == <<"4", "0", ".", "0", "0", "4">>
T0    == <<"0">>
TNeg  == <<"-", "5">>
TNan  == <<"n", "a", "n">>
TAbc  == <<"a", "b", "c">>
RLong == <<"R", "0", "1", "2", "3", "4", "5", "6", "7", "8", "9", "0", "1", "2">>
GShort == <<"0", "9", "1", "7">>
GAlpha == <<"0", "9", "1", "7", "1", "2", "3", "4", "5", "6", "x">>
Blank == <<" ">>

Form(g, f, l, r, a, t) ==
    [gcash |-> g, first |-> f, last |-> l, ref |-> r, amount |-> a, type |-> t]

\* (amount text, type) typed by the user
ValueTexts == {<<T100, CASH_IN>>, <<T40, CASH_OUT>>}

\* forms that validate_inputs accepts
GoodForms ==
    {Form(c[1], c[2], c[3], r, v[1], v[2]) :
        c \in {<<G1, Ana, Cruz>>, <<G2, Bea, Cruz>>}, r \in RefArgs,
        v \in ValueTexts}

\* one field wrong at a time
BadForms ==
    {Form(g, Ana, Cruz, R1, T100, CASH_IN) : g \in {<<>>, GShort, GAlpha}}
    \cup {Form(G1, <<>>, Cruz, R1, T100, CASH_IN),
          Form(G1, Ana, Blank, R1, T100, CASH_IN),
          Form(G1, Ana, Cruz, <<>>, T100, CASH_IN),
          Form(G1, Ana, Cruz, RLong, T100, CASH_IN)}
    \cup {Form(G2, Ana, Cruz, R2, a, CASH_OUT) : a \in {<<>>, TAbc, T0, TNeg, TNan}}

AddForms == GoodForms \cup BadForms

\* what the user types over the three entries left enabled in edit mode
EditTexts ==
    {<<r, v[1], v[2]>> : r \in RefArgs, v \in ValueTexts}
    \cup {<<R1, a, CASH_IN>> : a \in {<<>>, T0, TNan}}
    \cup {<<RLong, T100, CASH_IN>>}

ResetForm ==
    /\ selected_transaction_id' = 0
    /\ form' = EmptyForm

RefreshData(view) ==
    /\ tree' = view.tree
    /\ labels' = view.labels
    /\ selection' = 0

AddCall(customer_id, d, r) ==
    [NoCall EXCEPT !.op = "add_transaction", !.customer_id = customer_id,
        !.ref = d.ref, !.amount = d.amount, !.type = d.type,
        !.ok = r.ret, !.msg = r.msg]

UpdateCall(trans_id, d, r) ==
    [NoCall EXCEPT !.op = "update_transaction", !.trans_id = trans_id,
        !.ref = d.ref, !.amount = d.amount, !.type = d.type,
        !.ok = r.ret, !.msg = r.msg]

\* a handler returns after validate_inputs gave None
Rejected(name, typed) ==
    /\ form' = typed
    /\ call' = NoCall
    /\ handler' = Handled(name, typed, FALSE, 0, FALSE)
    /\ UNCHANGED <<dbVars, addOrder, selected_transaction_id, tree, selection,
                   labels>>

\* the tail of a handler: on success reset_form and refresh_data
Finish(typed, ret, db) ==
    IF ret
    THEN ResetForm /\ RefreshData(refresh_data(db))
    ELSE /\ form' = typed
         /\ UNCHANGED <<selected_transaction_id, tree, selection, labels>>

\* GCashTrackerApp.add_transaction, on the "Add Transaction" button
ClickAdd(typed) ==
    /\ selected_transaction_id = 0
    /\ form = EmptyForm
    /\ seqTransaction < MaxAdds
    /\ UNCHANGED storeVars
    /\ \E data \in {validate_inputs(typed)} :
          IF ~data.ok THEN Rejected("add_transaction", typed) /\ UNCHANGED now
          ELSE \E c \in {get_or_create_customer(DB, data.gcash, data.first,
                                                data.last)} :
               \E a \in {add_transaction(c.db, c.ret, data.ref, data.amount,
                                         data.type, now)} :
                  /\ SetDB(a.db)
                  /\ addOrder' = Inserted(addOrder, DB, a.db)
                  /\ call' = AddCall(c.ret, data, a)
                  /\ handler' = Handled("add_transaction", typed, TRUE, 2, a.ret)
                  /\ Finish(typed, a.ret, a.db)
                  /\ now' = IF a.ret THEN now + 1 ELSE now

\* GCashTrackerApp.update_transaction, on the "Save Edits" button
ClickSaveEdits(ref, amount, type) ==
    /\ selected_transaction_id # 0
    /\ \E i \in 1..Len(tree) :
          tree[i].id = selected_transaction_id /\ form = LoadedForm(tree[i])
    /\ UNCHANGED <<now, addOrder, storeVars>>
    /\ \E typed \in {[form EXCEPT !.ref = ref, !.amount = amount, !.type = type]} :
       \E data \in {validate_inputs(typed)} :
          IF ~data.ok THEN Rejected("update_transaction", typed)
          ELSE \E u \in {update_transaction(DB, PyInt(selected_transaction_id),
                                            data.ref, data.amount, data.type)} :
                  /\ SetDB(u.db)
                  /\ call' = UpdateCall(PyInt(selected_transaction_id), data, u)
                  /\ handler' = Handled("update_transaction", typed, TRUE, 1, u.ret)
                  /\ Finish(typed, u.ret, u.db)

\* GCashTrackerApp.delete_transaction, on the "Delete Selected" button;
\* confirm is the answer to askyesno
ClickDelete(confirm) ==
    /\ UNCHANGED <<now, addOrder, storeVars>>
    /\ IF selection = 0 \/ ~confirm
       THEN /\ call' = NoCall
            /\ handler' = NoHandler
            /\ UNCHANGED <<dbVars, form, selected_transaction_id, tree, selection,
                           labels>>
       ELSE \E d \in {delete_transaction(DB, PyInt(selection))} :
               /\ SetDB(d.db)
               /\ call' = [NoCall EXCEPT !.op = "delete_transaction",
                              !.trans_id = PyInt(selection), !.ok = d.ret,
                              !.msg = d.msg]
               /\ handler' = Handled("delete_transaction", EmptyForm, FALSE, 1, d.ret)
               /\ Finish(form, d.ret, d.db)

\* the user selects row i of the Treeview: load_selected
SelectRow(i) ==
    /\ selection' = tree[i].id
    /\ selected_transaction_id' = tree[i].id
    /\ form' = LoadedForm(tree[i])
    /\ call' = NoCall
    /\ handler' = NoHandler
    /\ UNCHANGED <<dbVars, now, addOrder, tree, labels, storeVars>>

\* reset_form, on the "Clear Form" button
ClickClearForm ==
    /\ ResetForm
    /\ call' = NoCall
    /\ handler' = NoHandler
    /\ UNCHANGED <<dbVars, now, addOrder, tree, selection, labels, storeVars>>

AppNext ==
    \/ \E f \in AddForms : ClickAdd(f)
    \/ \E e \in EditTexts : ClickSaveEdits(e[1], e[2], e[3])
    \/ ClickSaveEdits(form.ref, form.amount, form.type)
    \/ \E confirm \in BOOLEAN : ClickDelete(confirm)
    \/ \E i \in 1..Len(tree) : SelectRow(i)
    \/ ClickClearForm

AppSpec == Init /\ [][AppNext]_vars

---------------------------------------------------------------------------
(* Failures of the store.  The program starts by constructing the          *)
(* DatabaseManager (connect, then create_tables); after that its caller    *)
(* calls the five operations.  Whether the store fails during a statement  *)
(* is an input of the step.  An exception that no except clause of the     *)
(* operation catches leaves the data layer, and the run is followed no     *)
(* further.                                                                *)

\* the subclasses of sqlite3.Error the store raises
SqliteErrors == {"OperationalError"}

\* what fails in connect: nothing, sqlite3.connect, or the PRAGMA statement
ConnectFailures == {"", "connect", "PRAGMA"}

\* the exception a statement on self.cursor ends with ("" when it succeeds):
\* None has no execute; the store fails, or a table is missing
Execute(cur, tabs, fails) ==
    IF cur = "None" THEN "AttributeError"
    ELSE IF fails \/ ~tabs THEN "OperationalError"
    ELSE ""

\* the except clauses: every method but fetch_all_transactions catches
\* sqlite3.Error, and nothing else
Catches(op, exc) ==
    /\ exc \in SqliteErrors
    /\ op \in {"connect", "create_tables", "get_or_create_customer",
               "add_transaction", "update_transaction", "delete_transaction"}

\* what a method returns from its except clause, after the message box
ErrorValue(done) ==
    [done EXCEPT !.ok = FALSE, !.id = 0, !.msg = MSG_DB_ERROR, !.rows = <<>>]

\* the program before DatabaseManager() is constructed, on a new store
StoreInit ==
    /\ CUSTOMER = {}
    /\ TRANSACTION = {}
    /\ seqCustomer = 0
    /\ seqTransaction = 0
    /\ now = 0
    /\ call = NoCall
    /\ addOrder = <<>>
    /\ form = EmptyForm
    /\ selected_transaction_id = 0
    /\ tree = <<>>
    /\ selection = 0
    /\ labels = NoLabels
    /\ handler = NoHandler
    /\ pc = "connect"
    /\ conn = "None"
    /\ cursor = "None"
    /\ tables = FALSE
    /\ failure = FALSE
    /\ fault = ""

\* DatabaseManager.connect
Connect(fails) ==
    /\ pc = "connect"
    /\ pc' = "create_tables"
    /\ conn' = IF fails = "connect" THEN "None" ELSE "Connection"
    /\ cursor' = IF fails = "" THEN "Cursor" ELSE "None"
    /\ failure' = (fails # "")
    /\ call' = IF fails = ""
               THEN [NoCall EXCEPT !.op = "connect", !.ok = TRUE]
               ELSE ErrorValue([NoCall EXCEPT !.op = "connect"])
    /\ UNCHANGED <<dbVars, now, addOrder, guiVars, tables, fault>>

\* DatabaseManager.create_tables
CreateTables(fails) ==
    /\ pc = "create_tables"
    /\ \E exc \in {Execute(cursor, TRUE, fails)} :
          IF exc = ""
          THEN /\ tables' = TRUE
               /\ call' = [NoCall EXCEPT !.op = "create_tables", !.ok = TRUE]
               /\ failure' = FALSE
               /\ pc' = "ready"
               /\ UNCHANGED fault
          ELSE IF Catches("create_tables", exc)
          THEN /\ call' = ErrorValue([NoCall EXCEPT !.op = "create_tables"])
               /\ failure' = TRUE
               /\ pc' = "ready"
               /\ UNCHANGED <<tables, fault>>
          ELSE /\ call' = [NoCall EXCEPT !.op = "create_tables"]
               /\ failure' = FALSE
               /\ fault' = exc
               /\ pc' = "raised"
               /\ UNCHANGED tables
    /\ UNCHANGED <<dbVars, now, addOrder, guiVars, conn, cursor>>

\* one operation called on the constructed manager: done is the record of
\* the call and db the store after it when its statements succeed
Operation(done, db, fails) ==
    /\ pc = "ready"
    /\ Idle
    /\ \E exc \in {Execute(cursor, tables, fails)} :
          IF exc = ""
          THEN /\ SetDB(db)
               /\ addOrder' = Inserted(addOrder, DB, db)
               /\ call' = done
               /\ failure' = FALSE
               /\ UNCHANGED <<pc, fault>>
          ELSE IF Catches(done.op, exc)
          THEN /\ call' = ErrorValue(done)
               /\ failure' = TRUE
               /\ UNCHANGED <<dbVars, addOrder, pc, fault>>
          ELSE /\ call' = [ErrorValue(done) EXCEPT !.msg = ""]
               /\ failure' = TRUE
               /\ fault' = exc
               /\ pc' = "raised"
               /\ UNCHANGED <<dbVars, addOrder>>
    /\ UNCHANGED <<now, guiVars, conn, cursor, tables>>

OpGetOrCreateCustomer(gcash, first, last, fails) ==
    \E r \in {get_or_create_customer(DB, gcash, first, last)} :
        Operation([NoCall EXCEPT !.op = "get_or_create_customer",
                      !.gcash = gcash, !.first = first, !.last = last,
                      !.ok = (r.ret # None), !.id = r.ret.v, !.msg = r.msg],
                  r.db, fails)

OpAddTransaction(customer_id, ref_num, amount, trans_type, fails) ==
    /\ seqTransaction < MaxTransactions
    /\ \E r \in {add_transaction(DB, customer_id, ref_num, amount, trans_type,
                                 now)} :
          Operation(AddCall(customer_id,
                            [ref |-> ref_num, amount |-> amount,
                             type |-> trans_type], r),
                    r.db, fails)

OpUpdateTransaction(trans_id, ref_num, amount, trans_type, fails) ==
    \E r \in {update_transaction(DB, trans_id, ref_num, amount, trans_type)} :
        Operation(UpdateCall(trans_id,
                             [ref |-> ref_num, amount |-> amount,
                              type |-> trans_type], r),
                  r.db, fails)

OpDeleteTransaction(trans_id, fails) ==
    \E r \in {delete_transaction(DB, trans_id)} :
        Operation([NoCall EXCEPT !.op = "delete_transaction",
                      !.trans_id = trans_id, !.ok = r.ret, !.msg = r.msg],
                  r.db, fails)

OpFetchAllTransactions(fails) ==
    \E rows \in {fetch_all_transactions(DB)} :
        Operation([NoCall EXCEPT !.op = "fetch_all_transactions", !.ok = TRUE,
                      !.rows = rows],
                  DB, fails)

\* the caller has taken the result of the operation
OpReturn ==
    /\ pc = "ready"
    /\ ~Idle
    /\ call' = NoCall
    /\ failure' = FALSE
    /\ UNCHANGED <<dbVars, now, addOrder, guiVars, pc, conn, cursor, tables,
                   fault>>

StoreNext ==
    \/ \E f \in ConnectFailures : Connect(f)
    \/ \E f \in BOOLEAN : CreateTables(f)
    \/ \E c \in CustomerArgs, f \in BOOLEAN :
           OpGetOrCreateCustomer(c[1], c[2], c[3], f)
    \/ \E c \in CustIdArgs, r \in RefArgs, v \in ValueArgs, f \in BOOLEAN :
           OpAddTransaction(c, r, v[1], v[2], f)
    \/ \E i \in TransIdArgs, r \in RefArgs, v \in ValueArgs, f \in BOOLEAN :
           OpUpdateTransaction(i, r, v[1], v[2], f)
    \/ \E i \in TransIdArgs, f \in BOOLEAN : OpDeleteTransaction(i, f)
    \/ \E f \in BOOLEAN : OpFetchAllTransactions(f)
    \/ OpReturn

StoreSpec == StoreInit /\ [][StoreNext]_vars

---------------------------------------------------------------------------
(* Properties *)

DBNext == Store(CUSTOMER', TRANSACTION', seqCustomer', seqTransaction')

\* a data-layer call op is made in this step
Calls(op) == call.op = "none" /\ call'.op = op

RowsWithId(T, id) == {t \in T : PyInt(t.transaction_id) = id}

CustomersWithId(C, id) == {c \in C : PyInt(c.customer_id) = id}

Range(seq) == {seq[i] : i \in 1..Len(seq)}

\* position of id in the order of insertion
InsertedAt(id) == CHOOSE i \in 1..Len(addOrder) : addOrder[i] = id

RECURSIVE SumAmounts(_)
SumAmounts(S) ==
    IF S = {} THEN 0
    ELSE LET t == CHOOSE x \in S : TRUE IN t.amount + SumAmounts(S \ {t})

StoredTotal(type) == SumAmounts({t \in TRANSACTION : t.transaction_type = type})

\* C1: no two CUSTOMER rows share a gcash_number, whatever calls were made.
C1_UniqueGcash ==
    \A c1, c2 \in CUSTOMER : c1.gcash_number = c2.gcash_number => c1 = c2

\* C1: get_or_create_customer returns the id of the one row with that number:
\* a number seen before gives the existing row's id and changes no row (its
\* names stay as created, also when other names are passed); a new number
\* creates exactly one row, with the names passed.  No call changes or
\* removes a CUSTOMER row.
C1_GetOrCreateStep ==
    /\ \A c \in CUSTOMER : c \in CUSTOMER'
    /\ Calls("get_or_create_customer") =>
         LET before == {c \in CUSTOMER : c.gcash_number = call'.gcash} IN
         /\ call'.ok
         /\ IF before # {}
            THEN /\ CUSTOMER' = CUSTOMER
                 /\ \A c \in before : c.customer_id = call'.id
            ELSE /\ CUSTOMER' = CUSTOMER \cup
                        {[customer_id |-> call'.id, gcash_number |-> call'.gcash,
                          first_name |-> call'.first, last_name |-> call'.last]}
                 /\ \A c \in CUSTOMER : c.customer_id # call'.id

\* C1: after any sequence of calls the gcash numbers of the CUSTOMER rows are
\* distinct, and get_or_create_customer called again with a number returns
\* the same id, creates no second row and leaves the names as created.
C1_GetOrCreate == []C1_UniqueGcash /\ [][C1_GetOrCreateStep]_vars

\* a second call with a known number and another first name got the same row
C1_Witness ==
    /\ call.op = "get_or_create_customer" /\ call.ok
    /\ Cardinality(CUSTOMER) = 2
    /\ \E c \in CUSTOMER :
          /\ c.gcash_number = call.gcash /\ c.customer_id = call.id
          /\ c.first_name # call.first

DuplicateReference(c) == ~c.ok /\ c.msg = MSG_EXISTS

\* C3, first part: an add with a reference number in use, and an update of
\* an existing row to the reference number of another row, fail with
\* DuplicateReference and change no row.
C3_DuplicateStep ==
    LET dupAdd == /\ Calls("add_transaction")
                  /\ \E t \in TRANSACTION : t.reference_number = call'.ref
        dupUpd == /\ Calls("update_transaction")
                  /\ RowsWithId(TRANSACTION, call'.trans_id) # {}
                  /\ \E t \in TRANSACTION :
                        /\ t.reference_number = call'.ref
                        /\ PyInt(t.transaction_id) # call'.trans_id
    IN  (dupAdd \/ dupUpd) =>
            /\ DuplicateReference(call')
            /\ TRANSACTION' = TRANSACTION
            /\ CUSTOMER' = CUSTOMER

\* C3, second part: an update that keeps the row's own reference number does
\* not fail as a duplicate.
C3_OwnReferenceStep ==
    (/\ Calls("update_transaction")
     /\ \E t \in RowsWithId(TRANSACTION, call'.trans_id) :
           t.reference_number = call'.ref)
    => ~DuplicateReference(call')

\* C3, first part, over all steps
C3_Duplicates == [][C3_DuplicateStep]_vars

\* C3: duplicate reference numbers are refused with DuplicateReference and no
\* row changes; an update keeping the row's own reference number does not
\* fail as a duplicate.
C3_DuplicateReference == [][C3_DuplicateStep /\ C3_OwnReferenceStep]_vars

\* C4: an add_transaction whose reference number is free and which breaks
\* another constraint (no such customer, customer_id None, amount <= 0, type
\* not Cash-in or Cash-out) fails with an outcome other than
\* DuplicateReference.
C4_ConstraintViolation ==
    (/\ call.op = "add_transaction"
     /\ UniqueReference(TRANSACTION, call.ref, {})
     /\ \/ CustomersWithId(CUSTOMER, call.customer_id) = {}
        \/ (call.amount.kind = "float" /\ call.amount.v <= 0)
        \/ call.type \notin {CASH_IN, CASH_OUT})
    => (~call.ok /\ ~DuplicateReference(call))

\* C4, as far as it holds: such an add fails and stores nothing
C4_Refused ==
    (/\ call.op = "add_transaction"
     /\ UniqueReference(TRANSACTION, call.ref, {})
     /\ \/ CustomersWithId(CUSTOMER, call.customer_id) = {}
        \/ (call.amount.kind = "float" /\ call.amount.v <= 0)
        \/ call.type \notin {CASH_IN, CASH_OUT})
    => ~call.ok

\* the form is invalid in the words of C5
InvalidForm(f) ==
    \/ f.gcash = <<>> \/ f.first = <<>> \/ f.last = <<>> \/ f.ref = <<>>
    \/ f.amount = <<>>
    \/ ~GcashPattern(Strip(f.gcash))
    \/ Len(Strip(f.ref)) > RefMaxLen
    \/ FloatOf(f.amount).kind # "float"
    \/ FloatOf(f.amount).v <= 0

\* C5: when the add or update handler reads an invalid form (a field empty,
\* a gcash number that is not 09 and nine digits, a reference number of more
\* than 13 characters, an amount that is no number or is <= 0),
\* validate_inputs rejects it, no data-layer call is made and both tables
\* stay as they were.
C5_InvalidStep ==
    (/\ handler'.name \in {"add_transaction", "update_transaction"}
     /\ InvalidForm(handler'.input))
    => (/\ ~handler'.valid
        /\ handler'.calls = 0
        /\ CUSTOMER' = CUSTOMER
        /\ TRANSACTION' = TRANSACTION)

\* C5: no step of the add or update handler on an invalid form is accepted,
\* makes a data-layer call or changes a table.
C5_ValidationFirst == [][C5_InvalidStep]_vars

\* C6: a successful update_transaction changes the reference number, amount
\* and type of the row with that id and nothing else: its id, customer_id
\* and transaction_date, the other rows and the CUSTOMER table stay.
C6_UpdateStep ==
    (call'.op = "update_transaction" /\ call'.ok)
    => (/\ CUSTOMER' = CUSTOMER
        /\ Cardinality(TRANSACTION') = Cardinality(TRANSACTION)
        /\ \A t \in TRANSACTION :
              IF PyInt(t.transaction_id) = call'.trans_id
              THEN [t EXCEPT !.reference_number = call'.ref,
                             !.amount = call'.amount.v,
                             !.transaction_type = call'.type] \in TRANSACTION'
              ELSE t \in TRANSACTION')

\* C6: every successful update_transaction step changes only the three
\* columns of the row with that id.
C6_UpdateFrame == [][C6_UpdateStep]_vars

\* an update changed one of two rows, of two customers, after its insertion
C6_Witness ==
    /\ handler.name = "update_transaction" /\ call.ok
    /\ Cardinality(TRANSACTION) = 2 /\ Cardinality(CUSTOMER) = 2
    /\ \E t \in RowsWithId(TRANSACTION, call.trans_id) :
          /\ t.transaction_date # now
          /\ t.reference_number = call.ref
          /\ Strip(handler.input.ref) = call.ref
          /\ \E c \in CUSTOMER : /\ c.customer_id = t.customer_id
                                 /\ c.gcash_number = handler.input.gcash

\* C7: delete_transaction removes the row with that id and no other row,
\* returns success also when no row has the id, removes no CUSTOMER row, and
\* a fetch afterwards lists every other transaction and not that id.
C7_DeleteStep ==
    Calls("delete_transaction") =>
        LET hit  == RowsWithId(TRANSACTION, call'.trans_id)
            rows == fetch_all_transactions(DBNext)
        IN  /\ call'.ok
            /\ Cardinality(hit) <= 1
            /\ TRANSACTION' = TRANSACTION \ hit
            /\ CUSTOMER' = CUSTOMER
            /\ {r.transaction_id : r \in Range(rows)} =
                   {t.transaction_id : t \in TRANSACTION \ hit}

\* C7: every delete_transaction step removes exactly the row with that id,
\* if there is one, and succeeds.
C7_Delete == [][C7_DeleteStep]_vars

\* one of two rows was deleted
C7_Witness ==
    /\ call.op = "delete_transaction" /\ call.ok
    /\ seqTransaction = 2 /\ Cardinality(TRANSACTION) = 1
    /\ call.trans_id \in {PyInt(1), PyInt(2)}
    /\ RowsWithId(TRANSACTION, call.trans_id) = {}

\* C8: fetch_all_transactions returns one entry per TRANSACTION row, joined
\* with the number and name of its customer, in strictly descending
\* transaction_id order, which puts a row inserted later before a row
\* inserted earlier.
C8_FetchOrder ==
    call.op = "fetch_all_transactions" =>
        LET rows == call.rows IN
        /\ Len(rows) = Cardinality(TRANSACTION)
        /\ \A t \in TRANSACTION :
              \E i \in 1..Len(rows) :
                 /\ rows[i].transaction_id = t.transaction_id
                 /\ rows[i].reference_number = t.reference_number
                 /\ rows[i].amount = t.amount
                 /\ rows[i].transaction_type = t.transaction_type
                 /\ rows[i].transaction_date = t.transaction_date
                 /\ \E c \in CUSTOMER :
                       /\ c.customer_id = t.customer_id
                       /\ rows[i].customer_id = c.customer_id
                       /\ rows[i].gcash_number = c.gcash_number
                       /\ rows[i].first_name = c.first_name
                       /\ rows[i].last_name = c.last_name
        /\ \A i, j \in 1..Len(rows) :
              i < j => /\ rows[i].transaction_id > rows[j].transaction_id
                       /\ InsertedAt(rows[i].transaction_id) >
                              InsertedAt(rows[j].transaction_id)

\* a fetch after the row with the highest id was deleted and a row added
C8_Witness ==
    /\ call.op = "fetch_all_transactions"
    /\ Len(call.rows) = 2
    /\ call.rows[1].transaction_id = 3
    /\ call.rows[2].transaction_id = 1

\* C9: after a successful add_transaction(cid, ref, amount, type), the fetch
\* has a row with that reference number, amount and type, joined with the
\* gcash number and name of customer cid.
C9_RoundTrip ==
    (call.op = "add_transaction" /\ call.ok) =>
        \E r \in Range(fetch_all_transactions(DB)) :
            /\ r.reference_number = call.ref
            /\ r.amount = call.amount.v
            /\ r.transaction_type = call.type
            /\ \E c \in CustomersWithId(CUSTOMER, call.customer_id) :
                  /\ r.gcash_number = c.gcash_number
                  /\ r.first_name = c.first_name
                  /\ r.last_name = c.last_name

\* the second customer's transaction was added as the second row
C9_Witness ==
    /\ call.op = "add_transaction" /\ call.ok
    /\ call.customer_id = PyInt(2)
    /\ Cardinality(TRANSACTION) = 2

\* C10 as stated: after refresh_data the labels show the sum of the Cash-in
\* amounts, the sum of the Cash-out amounts, and cash-out minus cash-in
\* (labels are in centavos, amounts in mills).
C10_TotalsExact ==
    handler.refreshed =>
        /\ 10 * labels.cash_in = StoredTotal(CASH_IN)
        /\ 10 * labels.cash_out = StoredTotal(CASH_OUT)
        /\ 10 * labels.net = StoredTotal(CASH_OUT) - StoredTotal(CASH_IN)

\* C10, amended: after refresh_data the labels show the sum of the Cash-in
\* amounts, the sum of the Cash-out amounts, and cash-out minus cash-in,
\* each rounded to two decimal places.
C10_TotalsRounded ==
    handler.refreshed =>
        /\ labels.cash_in = RoundCents(StoredTotal(CASH_IN))
        /\ labels.cash_out = RoundCents(StoredTotal(CASH_OUT))
        /\ labels.net = RoundCents(StoredTotal(CASH_OUT) - StoredTotal(CASH_IN))

\* Cash-in 100 and Cash-out 40.004 are shown as 100.00, 40.00 and -60.00
C10_Witness ==
    /\ handler.refreshed
    /\ StoredTotal(CASH_IN) = 100000 /\ StoredTotal(CASH_OUT) = 40004
    /\ labels = [cash_in |-> 10000, cash_out |-> 4000, net |-> 0 - 6000]

\* the five operations of the data layer
Operations == {"get_or_create_customer", "add_transaction",
               "fetch_all_transactions", "update_transaction",
               "delete_transaction"}

\* C11, first part: no exception escapes connect, create_tables or an
\* operation.
C11_NothingEscapes == fault = ""

\* C11, second part: a failure of connect or create_tables is reported
\* (StoreUnavailable), and no operation is run on a manager without a
\* connection, a cursor or the tables.
C11_OpenFailureStops ==
    /\ (call.op \in {"connect", "create_tables"} /\ failure) =>
           (~call.ok /\ call.msg = MSG_DB_ERROR)
    /\ call.op \in Operations =>
           (conn = "Connection" /\ cursor = "Cursor" /\ tables)

\* C11, third part: an operation during which the store failed returned an
\* error value.
C11_ErrorValues ==
    (call.op \in Operations /\ failure) =>
        (~call.ok /\ call.msg = MSG_DB_ERROR /\ fault = "")

\* C11, for the four operations that catch sqlite3.Error: a store failure
\* gives the error value and changes no row
C11_CaughtStep ==
    (/\ call'.op \in Operations \ {"fetch_all_transactions"}
     /\ failure')
    => (/\ ~call'.ok /\ call'.msg = MSG_DB_ERROR /\ fault' = ""
        /\ CUSTOMER' = CUSTOMER /\ TRANSACTION' = TRANSACTION)

\* C11, the four catching operations, over all steps
C11_Caught == [][C11_CaughtStep]_vars

\* C11: every failure of the store comes back as an error outcome and no
\* exception escapes the data layer; a failed open is reported and no
\* operation runs without connection or tables; each of the five operations
\* returns an error value when the store fails.
C11_StoreFailures ==
    /\ C11_NothingEscapes
    /\ C11_OpenFailureStops
    /\ C11_ErrorValues

============================================================================
